---- MODULE Spec2Model ----
(***************************************************************************)
(* gomcli: the dispatch core of an interactive command line.               *)
(*                                                                         *)
(*   raw line --splitInlineCommands--> invocation strings                  *)
(*            --processLine--> longest registered prefix + residual tokens *)
(*            --Command.execute--> converted values --> Function           *)
(*                                                                         *)
(* Text is a sequence of one-character strings, so that the tokenizer, the *)
(* separator rules and the number parsers work on characters as the code   *)
(* does.  The alphabet of the model has no quote characters; the tokenizer *)
(* is the whitespace/backslash part of go-shlex.                           *)
(***************************************************************************)
EXTENDS Integers, Sequences, FiniteSets, TLC

VARIABLES
    commands,         \* GomCLI.commands: name -> Command
    notFoundHandler,  \* GomCLI.notFoundHandler
    pc,               \* where Start is: "prompt", "loop", "returned", "panic"
    userInput,        \* the raw line of the current prompt cycle
    lines,            \* processInput: the invocations split from userInput
    idx,              \* processInput: how many invocations were started
    log,              \* what the invocations of userInput did, in order
    ret,              \* the error processInput returned ("nil" for none)
    conv,             \* one call of convertStringToType: input and outcome
    comp,             \* the answer of complete to the last Tab at the prompt
    call,             \* the registry call the application made in the last step
    lock,             \* printer.go lock: the goroutine holding it, 0 when free
    callers,          \* the goroutines printing: where each one is
    started,          \* Start was entered: its deferred c.Close() runs on return
    closed            \* how many times Close has run

vars == <<commands, notFoundHandler, pc, userInput, lines, idx, log, ret, conv,
          comp, call, lock, callers, started, closed>>

printVars == <<lock, callers>>

closeVars == <<started, closed>>

dispatchVars == <<commands, notFoundHandler, pc, userInput, lines, idx, log, ret>>

---------------------------------------------------------------------------
(* Bounds                                                                  *)

\* words of one raw line
MaxWords == 3

\* The bit size handed to strconv.ParseInt/ParseUint, which is also the
\* width of the widest integer kinds.  The code has 64; the model keeps the
\* relation "widest kind = parse width" at a width TLC's integers can hold.
ParseBitSize == 9

---------------------------------------------------------------------------
(* Text                                                                    *)

SP == " "
SEMI == ";"
BSL == "\\"

Nil == "nil"

Pow2(n) == 2 ^ n

\* strings.Join(ws, " ")
RECURSIVE Join(_)
Join(ws) ==
    IF Len(ws) = 0 THEN <<>>
    ELSE IF Len(ws) = 1 THEN ws[1]
    ELSE ws[1] \o <<SP>> \o Join(Tail(ws))

\* s[:n] and s[n:] of Go, with 0-based n
Take(s, n) == SubSeq(s, 1, n)
Drop(s, n) == SubSeq(s, n + 1, Len(s))

---------------------------------------------------------------------------
(* go-shlex, Split(s, posix) with whitespacesplit = true                   *)
(* st: "ws" between tokens, "word" inside one, "esc" after a backslash     *)
(* (posix only).  In non-posix mode the backslash is an ordinary character.*)

ErrNoEscaped == "No escaped character"

RECURSIVE Lex(_, _, _, _, _, _)
Lex(s, i, tok, st, out, posix) ==
    IF i > Len(s)
    THEN [err    |-> IF st = "esc" THEN ErrNoEscaped ELSE Nil,
          tokens |-> IF tok = <<>> THEN out ELSE Append(out, tok)]
    ELSE LET c == s[i] IN
         CASE st = "ws" ->
                IF c = SP THEN Lex(s, i + 1, <<>>, "ws", out, posix)
                ELSE IF posix /\ c = BSL THEN Lex(s, i + 1, <<>>, "esc", out, posix)
                ELSE Lex(s, i + 1, <<c>>, "word", out, posix)
           [] st = "esc" -> Lex(s, i + 1, Append(tok, c), "word", out, posix)
           [] OTHER ->
                IF c = SP
                THEN IF tok # <<>>
                     THEN Lex(s, i + 1, <<>>, "ws", Append(out, tok), posix)
                     ELSE Lex(s, i + 1, tok, "word", out, posix)
                ELSE IF posix /\ c = BSL THEN Lex(s, i + 1, tok, "esc", out, posix)
                ELSE Lex(s, i + 1, Append(tok, c), "word", out, posix)

ShlexSplit(s, posix) == Lex(s, 1, <<>>, "ws", <<>>, posix)

---------------------------------------------------------------------------
(* Errors                                                                  *)

ErrCliPromptAborted == "prompt aborted"
ErrCliCannotParseLine == "cannot parse line"
ErrCliCommandNotFound == "command not found"
ErrCmdMissingArgs == "Missing arguments"
ErrCmdInvalidArgs == "Invalid arguments"
ErrCmdArgOverflow == "Value too big"
ErrCmdArgUnsupportedKind == "Unsupported Kind"
\* *strconv.NumError wrapping strconv.ErrSyntax / strconv.ErrRange
NumErrSyntax == "strconv: invalid syntax"
NumErrRange == "strconv: value out of range"
\* an error of the embedding application, returned by one of its handlers
ErrApp == "application error"

---------------------------------------------------------------------------
(* splitInlineCommands                                                     *)

\* element[len(element)-2:]
Last2(e) == SubSeq(e, Len(e) - 1, Len(e))

\* SplitLoop with the accumulated statement not reset when a separator
\* closes it
RECURSIVE SplitLoopNoReset(_, _, _, _)
SplitLoopNoReset(parsed, i, ls, command) ==
    IF i > Len(parsed)
    THEN [err   |-> Nil,
          lines |-> IF Len(command) > 0 THEN Append(ls, Join(command)) ELSE ls]
    ELSE LET element == parsed[i] IN
         IF Len(element) > 1 /\ Last2(element) = <<BSL, SEMI>>
         THEN SplitLoopNoReset(parsed, i + 1, ls, Append(command, element))
         ELSE IF Len(element) > 1 /\ Last2(element) = <<SEMI, SEMI>>
         THEN [err |-> ErrCliCannotParseLine, lines |-> <<>>]
         ELSE IF element[Len(element)] = SEMI
         THEN LET body == Take(element, Len(element) - 1)
                  cmd2 == IF body # <<>> THEN Append(command, body) ELSE command
              IN SplitLoopNoReset(parsed, i + 1, Append(ls, Join(cmd2)), cmd2)
         ELSE SplitLoopNoReset(parsed, i + 1, ls, Append(command, element))

\* SplitLoop without the test for a doubled separator
RECURSIVE SplitLoopNoDoubled(_, _, _, _)
SplitLoopNoDoubled(parsed, i, ls, command) ==
    IF i > Len(parsed)
    THEN [err   |-> Nil,
          lines |-> IF Len(command) > 0 THEN Append(ls, Join(command)) ELSE ls]
    ELSE LET element == parsed[i] IN
         IF Len(element) > 1 /\ Last2(element) = <<BSL, SEMI>>
         THEN SplitLoopNoDoubled(parsed, i + 1, ls, Append(command, element))
         ELSE IF element[Len(element)] = SEMI
         THEN LET body == Take(element, Len(element) - 1)
                  cmd2 == IF body # <<>> THEN Append(command, body) ELSE command
              IN SplitLoopNoDoubled(parsed, i + 1, Append(ls, Join(cmd2)), <<>>)
         ELSE SplitLoopNoDoubled(parsed, i + 1, ls, Append(command, element))

\* SplitLoop without the test for an escaped separator
RECURSIVE SplitLoopNoEscape(_, _, _, _)
SplitLoopNoEscape(parsed, i, ls, command) ==
    IF i > Len(parsed)
    THEN [err   |-> Nil,
          lines |-> IF Len(command) > 0 THEN Append(ls, Join(command)) ELSE ls]
    ELSE LET element == parsed[i] IN
         IF Len(element) > 1 /\ Last2(element) = <<SEMI, SEMI>>
         THEN [err |-> ErrCliCannotParseLine, lines |-> <<>>]
         ELSE IF element[Len(element)] = SEMI
         THEN LET body == Take(element, Len(element) - 1)
                  cmd2 == IF body # <<>> THEN Append(command, body) ELSE command
              IN SplitLoopNoEscape(parsed, i + 1, Append(ls, Join(cmd2)), <<>>)
         ELSE SplitLoopNoEscape(parsed, i + 1, ls, Append(command, element))

\* SplitLoop that forgets the statement still open at the end of the input
RECURSIVE SplitLoopNoFlush(_, _, _, _)
SplitLoopNoFlush(parsed, i, ls, command) ==
    IF i > Len(parsed)
    THEN [err |-> Nil, lines |-> ls]
    ELSE LET element == parsed[i] IN
         IF Len(element) > 1 /\ Last2(element) = <<BSL, SEMI>>
         THEN SplitLoopNoFlush(parsed, i + 1, ls, Append(command, element))
         ELSE IF Len(element) > 1 /\ Last2(element) = <<SEMI, SEMI>>
         THEN [err |-> ErrCliCannotParseLine, lines |-> <<>>]
         ELSE IF element[Len(element)] = SEMI
         THEN LET body == Take(element, Len(element) - 1)
                  cmd2 == IF body # <<>> THEN Append(command, body) ELSE command
              IN SplitLoopNoFlush(parsed, i + 1, Append(ls, Join(cmd2)), <<>>)
         ELSE SplitLoopNoFlush(parsed, i + 1, ls, Append(command, element))

RECURSIVE SplitLoop(_, _, _, _)
SplitLoop(parsed, i, ls, command) ==
    IF i > Len(parsed)
    THEN [err   |-> Nil,
          lines |-> IF Len(command) > 0 THEN Append(ls, Join(command)) ELSE ls]
    ELSE LET element == parsed[i] IN
         IF Len(element) > 1 /\ Last2(element) = <<BSL, SEMI>>
         THEN SplitLoop(parsed, i + 1, ls, Append(command, element))
         ELSE IF Len(element) > 1 /\ Last2(element) = <<SEMI, SEMI>>
         THEN [err |-> ErrCliCannotParseLine, lines |-> <<>>]
         ELSE IF element[Len(element)] = SEMI
         THEN LET body == Take(element, Len(element) - 1)
                  cmd2 == IF body # <<>> THEN Append(command, body) ELSE command
              IN SplitLoop(parsed, i + 1, Append(ls, Join(cmd2)), <<>>)
         ELSE SplitLoop(parsed, i + 1, ls, Append(command, element))

\* splitInlineCommands after shlex.Split returned parsed
splitParsed(parsed) ==
    IF parsed.err # Nil
    THEN [err |-> ErrCliCannotParseLine, lines |-> <<>>]
    ELSE SplitLoop(parsed.tokens, 1, <<>>, <<>>)

splitInlineCommands(input) == splitParsed(ShlexSplit(input, FALSE))

---------------------------------------------------------------------------
(* strconv.ParseUint / ParseInt with base 0, ParseFloat, ParseBool         *)

Digits == <<"0", "1", "2", "3", "4", "5", "6", "7", "8", "9",
            "a", "b", "c", "d", "e", "f">>

IsDigitChar(c) == \E d \in 1..Len(Digits) : Digits[d] = c

\* d of ParseUint's loop: c - '0', or lower(c) - 'a' + 10
DigitVal(c) == (CHOOSE d \in 1..Len(Digits) : Digits[d] = c) - 1

\* ParseUint's loop over the digits that follow the base prefix
RECURSIVE UintLoop(_, _, _, _, _)
UintLoop(s, i, base, n, maxVal) ==
    IF i > Len(s) THEN [err |-> Nil, val |-> n]
    ELSE IF ~IsDigitChar(s[i]) THEN [err |-> NumErrSyntax, val |-> 0]
    ELSE IF DigitVal(s[i]) >= base THEN [err |-> NumErrSyntax, val |-> 0]
    ELSE IF n * base + DigitVal(s[i]) > maxVal THEN [err |-> NumErrRange, val |-> maxVal]
    ELSE UintLoop(s, i + 1, base, n * base + DigitVal(s[i]), maxVal)

ParseUint(s, bitSize) ==
    IF s = <<>> THEN [err |-> NumErrSyntax, val |-> 0]
    ELSE LET maxVal == Pow2(bitSize) - 1 IN
         IF s[1] = "0"
         THEN IF Len(s) >= 3 /\ s[2] = "b" THEN UintLoop(Drop(s, 2), 1, 2, 0, maxVal)
              ELSE IF Len(s) >= 3 /\ s[2] = "o" THEN UintLoop(Drop(s, 2), 1, 8, 0, maxVal)
              ELSE IF Len(s) >= 3 /\ s[2] = "x" THEN UintLoop(Drop(s, 2), 1, 16, 0, maxVal)
              ELSE UintLoop(Drop(s, 1), 1, 8, 0, maxVal)
         ELSE UintLoop(s, 1, 10, 0, maxVal)

\* ParseInt after ParseUint: the sign and the range of the signed result
SignedOf(neg, un, cutoff) ==
    IF un.err = NumErrSyntax THEN [err |-> NumErrSyntax, val |-> 0]
    ELSE IF ~neg /\ un.val >= cutoff THEN [err |-> NumErrRange, val |-> cutoff - 1]
    ELSE IF neg /\ un.val > cutoff THEN [err |-> NumErrRange, val |-> -cutoff]
    ELSE [err |-> Nil, val |-> IF neg THEN -un.val ELSE un.val]

\* s without its sign
Unsigned(s) == IF s[1] \in {"+", "-"} THEN Tail(s) ELSE s

ParseInt(s, bitSize) ==
    IF s = <<>> THEN [err |-> NumErrSyntax, val |-> 0]
    ELSE SignedOf(s[1] = "-", ParseUint(Unsigned(s), bitSize), Pow2(bitSize - 1))

\* ParseFloat on the texts the model's alphabet can spell: an optional sign
\* and decimal digits (no point, exponent, "inf" or "nan"); the value is kept
\* as the integer it denotes.
RECURSIVE DecLoop(_, _, _)
DecLoop(s, i, n) ==
    IF i > Len(s) THEN [err |-> Nil, val |-> n]
    ELSE IF ~IsDigitChar(s[i]) \/ DigitVal(s[i]) >= 10 THEN [err |-> NumErrSyntax, val |-> 0]
    ELSE DecLoop(s, i + 1, n * 10 + DigitVal(s[i]))

FloatOf(neg, r) ==
    IF r.err # Nil THEN r ELSE [err |-> Nil, val |-> IF neg THEN -r.val ELSE r.val]

ParseFloat(s) ==
    IF s = <<>> \/ Unsigned(s) = <<>> THEN [err |-> NumErrSyntax, val |-> 0]
    ELSE FloatOf(s[1] = "-", DecLoop(Unsigned(s), 1, 0))

ParseBool(s) ==
    IF s \in {<<"1">>, <<"t">>, <<"T">>, <<"t", "r", "u", "e">>,
              <<"T", "R", "U", "E">>, <<"T", "r", "u", "e">>}
    THEN [err |-> Nil, val |-> TRUE]
    ELSE IF s \in {<<"0">>, <<"f">>, <<"F">>, <<"f", "a", "l", "s", "e">>,
                   <<"F", "A", "L", "S", "E">>, <<"F", "a", "l", "s", "e">>}
    THEN [err |-> Nil, val |-> FALSE]
    ELSE [err |-> NumErrSyntax, val |-> FALSE]

---------------------------------------------------------------------------
(* convertStringToType                                                     *)

SignedKinds == {"Int8", "Int64"}
UnsignedKinds == {"Uint8", "Uint64"}
Kinds == SignedKinds \cup UnsignedKinds \cup {"Float64", "String", "Bool", "Chan"}

\* t.Size() * 8 of an integer kind
Int8Bits == 8
KindBits(k) == IF k \in {"Int8", "Uint8"} THEN Int8Bits ELSE ParseBitSize

\* reflect.Indirect(reflect.New(t)): the zero value of the kind
Zero(k) ==
    [kind |-> k,
     v    |-> CASE k \in SignedKinds \cup UnsignedKinds \cup {"Float64"} -> 0
                [] k = "String" -> <<>>
                [] k = "Bool" -> FALSE
                [] OTHER -> Nil]

Val(k, x) == [kind |-> k, v |-> x]

\* reflect.Value.OverflowInt / OverflowUint
OverflowInt(k, x) == x < -Pow2(KindBits(k) - 1) \/ x > Pow2(KindBits(k) - 1) - 1
OverflowUint(k, x) == x > Pow2(KindBits(k)) - 1

\* the signed case after ParseInt: err, overflow, SetInt
IntResult(k, p) ==
    IF p.err # Nil THEN [err |-> p.err, val |-> Zero(k)]
    ELSE IF OverflowInt(k, p.val) THEN [err |-> ErrCmdArgOverflow, val |-> Zero(k)]
    ELSE [err |-> Nil, val |-> Val(k, p.val)]

\* the unsigned case after ParseUint: err, overflow, SetUint
UintResult(k, p) ==
    IF p.err # Nil THEN [err |-> p.err, val |-> Zero(k)]
    ELSE IF OverflowUint(k, p.val) THEN [err |-> ErrCmdArgOverflow, val |-> Zero(k)]
    ELSE [err |-> Nil, val |-> Val(k, p.val)]

\* the float and bool cases after ParseFloat / ParseBool: err, Set
Parsed(k, p) ==
    IF p.err # Nil THEN [err |-> p.err, val |-> Zero(k)]
    ELSE [err |-> Nil, val |-> Val(k, p.val)]

convertStringToType(k, strVal) ==
    CASE k \in SignedKinds -> IntResult(k, ParseInt(strVal, ParseBitSize))
      [] k \in UnsignedKinds -> UintResult(k, ParseUint(strVal, ParseBitSize))
      [] k = "Float64" -> Parsed(k, ParseFloat(strVal))
      [] k = "String" -> [err |-> Nil, val |-> Val(k, strVal)]
      [] k = "Bool" -> Parsed(k, ParseBool(strVal))
      [] OTHER -> [err |-> ErrCmdArgUnsupportedKind, val |-> Zero(k)]

---------------------------------------------------------------------------
(* Command                                                                 *)
(* Function is what reflect sees of the registered value: nothing, a value *)
(* that is no function, or a function with its parameter kinds.  effect    *)
(* is what the function does to the CLI when it runs: nothing, or           *)
(* AddCommand of another command, as modeAdvanced of the README does.      *)

NilFunc == [is |-> "nil", in |-> <<>>, effect |-> "none"]
NotAFunc == [is |-> "value", in |-> <<>>, effect |-> "none"]
Func(kinds, eff) == [is |-> "func", in |-> kinds, effect |-> eff]

\* ErrHandler of a Command: none, one that handles every error and returns
\* nil (errorHandler of the README), one that returns an error of its own
ErrHandlers == {"nil", "retNil", "retErr"}

ErrHandlerCall(h, err) == IF h = "retNil" THEN Nil ELSE ErrApp

\* the command names of the model, after the README: "a" is mode, "a b" is
\* mode advanced, "b" is power
NameA == <<"a">>
NameAB == <<"a", SP, "b">>
NameB == <<"b">>
Names == {NameA, NameAB, NameB}

\* a command whose Function removes "b" again (the way back from mode
\* advanced)
NameD == <<"d">>

\* the Completer of the README's commands: "a" (mode) has modeCompleter,
\* the others have none
CompleterOf(name) == IF name = NameA THEN "modeCompleter" ELSE "nil"

Command(name, fn, h) ==
    [Name |-> name, Function |-> fn, ErrHandler |-> h, Completer |-> CompleterOf(name)]

\* one thing an invocation did
Ev(ev, cmd, args, vals, err, res) ==
    [idx |-> 0, ev |-> ev, name |-> cmd.Name, handler |-> cmd.ErrHandler,
     args |-> args, vals |-> vals, err |-> err, res |-> res]

\* handleErr returning nil when the command has no ErrHandler
handleErrSwallow(cmd, err) ==
    IF cmd.ErrHandler = "nil" THEN Nil ELSE ErrHandlerCall(cmd.ErrHandler, err)

\* Command.handleErr: what execute gets back for err
handleErr(cmd, err) ==
    IF cmd.ErrHandler = "nil" THEN err ELSE ErrHandlerCall(cmd.ErrHandler, err)

\* cap of a slice built by append, one element at a time, from make([]T, 0)
RECURSIVE CapAfter(_)
CapAfter(n) ==
    IF n = 0 THEN 0
    ELSE LET c == CapAfter(n - 1) IN
         IF n <= c THEN c ELSE IF c = 0 THEN 1 ELSE 2 * c

ErrSliceBounds == "slice bounds out of range"
ErrNoFunction == "Execute requires a function!"

\* the loop of execute over args[:ni], then v.Call(values):
\* BindLoop is the loop head, BindConverted what follows convertStringToType
\* with its result c, BindHandled what follows handleErr with its result h
RECURSIVE BindLoop(_, _, _, _, _, _)
RECURSIVE BindConverted(_, _, _, _, _, _, _)
RECURSIVE BindHandled(_, _, _, _, _, _, _, _)

BindHandled(cmd, args, sliced, i, values, evs, c, h) ==
    IF h # Nil
    THEN [err |-> h, panic |-> FALSE, called |-> FALSE,
          events |-> Append(evs, Ev("handleErr", cmd, args, <<>>, c.err, h))]
    ELSE BindLoop(cmd, args, sliced, i + 1, Append(values, c.val),
                  Append(evs, Ev("handleErr", cmd, args, <<>>, c.err, h)))

BindConverted(cmd, args, sliced, i, values, evs, c) ==
    IF c.err # Nil
    THEN BindHandled(cmd, args, sliced, i, values, evs, c, handleErr(cmd, c.err))
    ELSE BindLoop(cmd, args, sliced, i + 1, Append(values, c.val), evs)

BindLoop(cmd, args, sliced, i, values, evs) ==
    IF i > Len(sliced)
    THEN [err |-> Nil, panic |-> FALSE, called |-> TRUE,
          events |-> Append(evs, Ev("call", cmd, args, values, Nil, Nil))]
    ELSE BindConverted(cmd, args, sliced, i, values, evs,
                       convertStringToType(cmd.Function.in[i], sliced[i]))

\* args[:ni] and the loop; capArgs is cap(args)
executeBind(cmd, args, capArgs, evs) ==
    IF Len(cmd.Function.in) > capArgs
    THEN [err |-> Nil, panic |-> TRUE, called |-> FALSE,
          events |-> Append(evs, Ev("panic", cmd, args, <<>>, ErrSliceBounds, Nil))]
    ELSE BindLoop(cmd, args,
                  [j \in 1..Len(cmd.Function.in) |-> IF j <= Len(args) THEN args[j] ELSE <<>>],
                  1, <<>>, evs)

\* execute after handleErr(ErrCmdMissingArgs) gave h
executeMissing(cmd, args, capArgs, evs, h) ==
    IF h # Nil
    THEN [err |-> h, panic |-> FALSE, called |-> FALSE,
          events |-> Append(evs, Ev("handleErr", cmd, args, <<>>, ErrCmdMissingArgs, h))]
    ELSE executeBind(cmd, args, capArgs,
                     Append(evs, Ev("handleErr", cmd, args, <<>>, ErrCmdMissingArgs, h)))

\* executeFrom with any argument count other than the parameter count
\* reported as ErrCmdMissingArgs
executeFromStrict(cmd, args, capArgs, enter) ==
    IF cmd.Function.is # "func"
    THEN [err |-> Nil, panic |-> TRUE, called |-> FALSE,
          events |-> Append(enter, Ev("panic", cmd, args, <<>>, ErrNoFunction, Nil))]
    ELSE IF Len(args) # Len(cmd.Function.in)
    THEN executeMissing(cmd, args, capArgs, enter, handleErr(cmd, ErrCmdMissingArgs))
    ELSE executeBind(cmd, args, capArgs, enter)

\* executeFrom with a missing Function reported to the ErrHandler
executeFromHandled(cmd, args, capArgs, enter) ==
    IF cmd.Function.is # "func"
    THEN [err |-> handleErr(cmd, ErrNoFunction), panic |-> FALSE, called |-> FALSE,
          events |-> Append(enter, Ev("handleErr", cmd, args, <<>>, ErrNoFunction,
                                      handleErr(cmd, ErrNoFunction)))]
    ELSE IF Len(args) < Len(cmd.Function.in)
    THEN executeMissing(cmd, args, capArgs, enter, handleErr(cmd, ErrCmdMissingArgs))
    ELSE executeBind(cmd, args, capArgs, enter)

\* execute from its entry, logged as enter
executeFrom(cmd, args, capArgs, enter) ==
    IF cmd.Function.is # "func"
    THEN [err |-> Nil, panic |-> TRUE, called |-> FALSE,
          events |-> Append(enter, Ev("panic", cmd, args, <<>>, ErrNoFunction, Nil))]
    ELSE IF Len(args) < Len(cmd.Function.in)
    THEN executeMissing(cmd, args, capArgs, enter, handleErr(cmd, ErrCmdMissingArgs))
    ELSE executeBind(cmd, args, capArgs, enter)

\* Command.execute
execute(cmd, args, capArgs) ==
    executeFrom(cmd, args, capArgs, <<Ev("execute", cmd, args, <<>>, Nil, Nil)>>)

---------------------------------------------------------------------------
(* GomCLI: registry and dispatch                                           *)

\* the commands of the model, after the README: "a" (mode) takes nothing,
\* "a b" (mode advanced) takes nothing and registers "b" when it runs,
\* "b" (power) takes two arguments, here an int8 and a string
FunctionOf(name) ==
    CASE name = NameA -> Func(<<>>, "none")
      [] name = NameAB -> Func(<<>>, "addB")
      [] name = NameD -> Func(<<>>, "delB")
      [] OTHER -> Func(<<"Int8", "String">>, "none")

\* AddCommand
AddCommand(cmds, cmd) ==
    [n \in DOMAIN cmds \cup {cmd.Name} |-> IF n = cmd.Name THEN cmd ELSE cmds[n]]

\* RemoveCommand: delete(c.commands, name)
RemoveCommand(cmds, name) == [n \in DOMAIN cmds \ {name} |-> cmds[n]]

\* what running cmd.Function does to the registry
RunFunction(cmds, cmd) ==
    IF cmd.Function.effect = "addB"
    THEN AddCommand(cmds, Command(NameB, FunctionOf(NameB), cmd.ErrHandler))
    ELSE IF cmd.Function.effect = "delB"
    THEN RemoveCommand(cmds, NameB)
    ELSE cmds

\* getCommand(name) found
Registered(cmds, name) == name \in DOMAIN cmds

\* the loop of processLine walking upwards: the shortest registered prefix
ResolveShortest(cmds, tokens, i) ==
    LET S == {j \in 1..i : Registered(cmds, Join(Take(tokens, j)))} IN
    IF S = {} THEN 0 ELSE CHOOSE j \in S : \A k \in S : j <= k

\* the loop of processLine: the first i, from n down to 1, whose joined
\* prefix is registered; 0 when there is none
RECURSIVE Resolve(_, _, _)
Resolve(cmds, tokens, i) ==
    IF i = 0 THEN 0
    ELSE IF Registered(cmds, Join(Take(tokens, i))) THEN i
    ELSE Resolve(cmds, tokens, i - 1)

\* NotFoundHandler of the CLI: none, one returning nil, one returning an error
NotFoundHandlers == {"nil", "retNil", "retErr"}

NoCmd == [Name |-> <<>>, ErrHandler |-> "nil"]

\* executed with the registry calls of the Function not reaching the
\* registry the next invocation is resolved against
executedNoEffect(cmds, cmd, r) ==
    [err |-> r.err, panic |-> r.panic, events |-> r.events, commands |-> cmds]

\* processLine after cmd.execute returned r: what the line did
executed(cmds, cmd, r) ==
    [err |-> r.err, panic |-> r.panic, events |-> r.events,
     commands |-> IF r.called THEN RunFunction(cmds, cmd) ELSE cmds]

\* processLine with the command found for tokens[:i]
processFound(cmds, cmd, tokens, i) ==
    executed(cmds, cmd,
             IF Len(tokens) > 1
             THEN execute(cmd, Drop(tokens, i), CapAfter(Len(tokens)) - i)
             ELSE execute(cmd, <<>>, 0))

\* what the NotFoundHandler returns
NotFoundCall(nfh) == IF nfh = "retNil" THEN Nil ELSE ErrApp

\* processResolved with the whole invocation handed to the NotFoundHandler
processResolvedWhole(cmds, nfh, tokens, i) ==
    IF i > 0
    THEN processFound(cmds, cmds[Join(Take(tokens, i))], tokens, i)
    ELSE IF nfh # "nil"
    THEN [err |-> NotFoundCall(nfh), panic |-> FALSE, commands |-> cmds,
          events |-> <<Ev("notFound", NoCmd, <<Join(tokens)>>, <<>>,
                          ErrCliCommandNotFound, NotFoundCall(nfh))>>]
    ELSE [err |-> Nil, panic |-> FALSE, events |-> <<>>, commands |-> cmds]

\* processLine after its loop found the prefix length i (0: none)
processResolved(cmds, nfh, tokens, i) ==
    IF i > 0
    THEN processFound(cmds, cmds[Join(Take(tokens, i))], tokens, i)
    ELSE IF nfh # "nil"
    THEN [err |-> NotFoundCall(nfh), panic |-> FALSE, commands |-> cmds,
          events |-> <<Ev("notFound", NoCmd, <<tokens[1]>>, <<>>,
                          ErrCliCommandNotFound, NotFoundCall(nfh))>>]
    ELSE [err |-> Nil, panic |-> FALSE, events |-> <<>>, commands |-> cmds]

\* processLine after shlex.Split returned t
processTokens(cmds, nfh, t) ==
    IF t.err # Nil
    THEN [err |-> ErrCliCannotParseLine, panic |-> FALSE, events |-> <<>>, commands |-> cmds]
    ELSE IF Len(t.tokens) = 0
    THEN [err |-> Nil, panic |-> FALSE, events |-> <<>>, commands |-> cmds]
    ELSE processResolved(cmds, nfh, t.tokens, Resolve(cmds, t.tokens, Len(t.tokens)))

processLine(cmds, nfh, line) == processTokens(cmds, nfh, ShlexSplit(line, TRUE))

---------------------------------------------------------------------------
(* Inputs                                                                  *)

Vocab ==
    { <<"a">>, <<"b">>, <<"1">>,
      <<"a", SEMI>>, <<"b", SEMI>>, <<"1", SEMI, "a">>,
      <<"a", SEMI, SEMI, "b">>, <<"b", SEMI, SEMI>>,
      <<BSL>> }

\* raw lines: up to MaxWords words, single spaces between them
Inputs == { Join(ws) : ws \in UNION { [1..n -> Vocab] : n \in 1..MaxWords } }

Registries ==
    { [n \in S |-> Command(n, FunctionOf(n), h)] : S \in SUBSET Names, h \in ErrHandlers }

ConvIdle == [kind |-> "String", tok |-> <<>>, num |-> 0, isNum |-> FALSE,
             done |-> FALSE, err |-> Nil, val |-> Zero("String")]

\* no Tab pressed since the prompt appeared
CompIdle == [done |-> FALSE, line |-> <<>>, pos |-> 0,
             head |-> <<>>, comp |-> {}, tail |-> <<>>,
             delegate |-> <<>>, search |-> <<>>]

\* the last step made no registry call
NoCall == [op |-> "none"]

\* goroutines that print
NumCallers == 3
Callers == 1..NumCallers

\* no goroutine is printing
PrintIdle == [c \in Callers |-> [at |-> "idle", fn |-> "none"]]

\* everything but the prompt loop at rest; Start was entered unless
\* StartWithInput has still to process its input
Rest ==
    /\ comp = CompIdle
    /\ call = NoCall
    /\ lock = 0
    /\ callers = PrintIdle
    /\ started = (pc # "start")
    /\ closed = 0

---------------------------------------------------------------------------
(* The prompt loop: Start, process, processInput                           *)

Init ==
    /\ commands \in Registries
    /\ notFoundHandler \in NotFoundHandlers
    /\ pc = "prompt"
    /\ userInput = <<>>
    /\ lines = <<>>
    /\ idx = 0
    /\ log = <<>>
    /\ ret = Nil
    /\ conv = ConvIdle
    /\ Rest

\* processInput with the error of splitInlineCommands dropped
SplitDoneDropErr(s) ==
    /\ lines' = s.lines
    /\ ret' = Nil
    /\ pc' = "loop"

\* processInput after splitInlineCommands returned s
SplitDone(s) ==
    /\ lines' = s.lines
    /\ ret' = s.err
    /\ pc' = IF s.err # Nil THEN "returned" ELSE "loop"

\* process: a line, one of inputs, is read; processInput splits it
PromptFrom(inputs) ==
    /\ pc = "prompt"
    /\ \E input \in inputs :
         /\ userInput' = input
         /\ SplitDone(splitInlineCommands(input))
    /\ idx' = 0
    /\ log' = <<>>
    /\ comp' = CompIdle
    /\ call' = NoCall
    /\ UNCHANGED <<commands, notFoundHandler, conv, printVars, closeVars>>

Prompt == PromptFrom(Inputs)

\* the events of invocation k, numbered
Numbered(events, k) == [j \in 1..Len(events) |-> [events[j] EXCEPT !.idx = k]]

\* the turn of the loop with processLine's result r, going on after an error
LineDoneGoOn(r) ==
    /\ idx' = idx + 1
    /\ log' = log \o Numbered(r.events, idx + 1)
    /\ commands' = r.commands
    /\ ret' = r.err
    /\ pc' = IF r.panic THEN "panic" ELSE "loop"

\* the turn of the loop with processLine's result r
LineDone(r) ==
    /\ idx' = idx + 1
    /\ log' = log \o Numbered(r.events, idx + 1)
    /\ commands' = r.commands
    /\ ret' = r.err
    /\ pc' = IF r.panic THEN "panic" ELSE IF r.err # Nil THEN "returned" ELSE "loop"

\* processInput: one turn of the loop over lines
ProcessLine ==
    /\ pc = "loop"
    /\ idx < Len(lines)
    /\ LineDone(processLine(commands, notFoundHandler, lines[idx + 1]))
    /\ UNCHANGED <<notFoundHandler, userInput, lines, conv, comp, call, printVars, closeVars>>

\* processInput returns nil and Start prompts again (StartWithInput calls
\* Start, which defers Close); the line and what it did are forgotten
ProcessInputDone ==
    /\ pc = "loop"
    /\ idx = Len(lines)
    /\ pc' = "prompt"
    /\ userInput' = <<>>
    /\ lines' = <<>>
    /\ idx' = 0
    /\ log' = <<>>
    /\ started' = TRUE
    /\ UNCHANGED <<commands, notFoundHandler, ret, conv, comp, call, printVars, closed>>

Next == Prompt \/ ProcessLine \/ ProcessInputDone

Spec == Init /\ [][Next]_vars

---------------------------------------------------------------------------
(* The converter on its own: one parameter kind, one token                 *)

\* strconv.FormatInt(v, 10)
RECURSIVE FormatUint(_)
FormatUint(n) ==
    IF n < 10 THEN <<Digits[n + 1]>>
    ELSE Append(FormatUint(n \div 10), Digits[(n % 10) + 1])

FormatInt(v) == IF v < 0 THEN <<"-">> \o FormatUint(-v) ELSE FormatUint(v)

\* the integers whose decimal text is tried: all that fit the parse width as
\* unsigned or signed numbers, and a few beyond on both sides
TestInts == (-(Pow2(ParseBitSize)) - 2)..(Pow2(ParseBitSize) + 2)

\* texts that are not decimal integers: empty, letters, prefixes, signs
OtherTokens ==
    { <<>>, <<"x">>, <<"-">>, <<"+", "1">>, <<"1", "x">>,
      <<"0", "x", "7", "f">>, <<"0", "1", "7">>, <<"0", "8">>, <<"0", "b", "1", "1">>,
      <<"t">>, <<"f">>, <<"t", "r", "u", "e">>, <<"y", "e", "s">> }

ConvInputs ==
    { [kind |-> k, tok |-> FormatInt(v), num |-> v, isNum |-> TRUE,
       done |-> FALSE, err |-> Nil, val |-> Zero(k)] : k \in Kinds, v \in TestInts }
    \cup
    { [kind |-> k, tok |-> t, num |-> 0, isNum |-> FALSE,
       done |-> FALSE, err |-> Nil, val |-> Zero(k)] : k \in Kinds, t \in OtherTokens }

InitBind ==
    /\ commands = <<>>
    /\ notFoundHandler = "nil"
    /\ pc = "prompt"
    /\ userInput = <<>>
    /\ lines = <<>>
    /\ idx = 0
    /\ log = <<>>
    /\ ret = Nil
    /\ conv \in ConvInputs
    /\ Rest

\* the call returned r
Converted(r) == conv' = [conv EXCEPT !.done = TRUE, !.err = r.err, !.val = r.val]

\* convertStringToType(conv.kind, conv.tok)
Convert ==
    /\ ~conv.done
    /\ Converted(convertStringToType(conv.kind, conv.tok))
    /\ UNCHANGED <<dispatchVars, comp, call, printVars, closeVars>>

NextBind == Convert

SpecBind == InitBind /\ [][NextBind]_vars

\* C9 as stated: the decimal text of an integer v binds to a signed kind of
\* width w exactly when -2^(w-1) <= v <= 2^(w-1)-1, to an unsigned kind exactly
\* when 0 <= v <= 2^w-1, and is the overflow error otherwise, for every width,
\* the widest included (non-negative v for the unsigned kinds)
C9_OverflowBoundary ==
    (conv.done /\ conv.isNum) =>
        LET w == KindBits(conv.kind)
            v == conv.num
        IN /\ (conv.kind \in SignedKinds) =>
                 IF -Pow2(w - 1) <= v /\ v <= Pow2(w - 1) - 1
                 THEN conv.err = Nil /\ conv.val = Val(conv.kind, v)
                 ELSE conv.err = ErrCmdArgOverflow
           /\ (conv.kind \in UnsignedKinds /\ v >= 0) =>
                 IF v <= Pow2(w) - 1
                 THEN conv.err = Nil /\ conv.val = Val(conv.kind, v)
                 ELSE conv.err = ErrCmdArgOverflow

---------------------------------------------------------------------------
(* StartWithInput: an initial input of any shape goes through processInput *)

\* characters of an initial input
MaxRawLen == 5

RECURSIVE RawOfLen(_)
RawOfLen(n) ==
    IF n = 0 THEN { <<>> }
    ELSE { Append(l, ch) : l \in RawOfLen(n - 1), ch \in {"a", SEMI, BSL, SP} }

RawInputs == UNION { RawOfLen(n) : n \in 0..MaxRawLen }

\* StartWithInput(input) is about to run
InitSplit ==
    /\ commands \in Registries
    /\ notFoundHandler = "retNil"
    /\ pc = "start"
    /\ userInput \in RawInputs
    /\ lines = <<>>
    /\ idx = 0
    /\ log = <<>>
    /\ ret = Nil
    /\ conv = ConvIdle
    /\ Rest

\* StartWithInput: processInput(input) splits the input; its loop and the
\* call of Start after it are ProcessLine and ProcessInputDone
StartWithInput ==
    /\ pc = "start"
    /\ SplitDone(splitInlineCommands(userInput))
    /\ UNCHANGED <<commands, notFoundHandler, userInput, idx, log, conv,
                   comp, call, printVars, closeVars>>

NextSplit == StartWithInput \/ ProcessLine \/ ProcessInputDone

SpecSplit == InitSplit /\ [][NextSplit]_vars

---------------------------------------------------------------------------
(* One invocation of one command: any Function, any handler, any arguments *)

\* argument tokens of the invocation
MaxArgs == 3

\* what a Command's Function can be: missing, a value that is no function,
\* functions of zero, one and two parameters
ExecFuncs ==
    { NilFunc, NotAFunc, Func(<<>>, "none"), Func(<<"Int8">>, "none"),
      Func(<<"Int8", "String">>, "none"), Func(<<"Bool", "Uint8">>, "none") }

\* tokens that convert to some kinds and not to others
ArgTokens == { <<"1">>, <<"x">>, <<"3", "0", "0">>, <<"t">> }

ExecArgs == UNION { [1..n -> ArgTokens] : n \in 0..MaxArgs }

\* the command "b" is registered and the line "b <args>" has been read and
\* split into its one invocation
InitExec ==
    /\ \E fn \in ExecFuncs, h \in ErrHandlers, args \in ExecArgs :
          /\ commands = AddCommand(<<>>, Command(NameB, fn, h))
          /\ userInput = Join(<<NameB>> \o args)
          /\ lines = << Join(<<NameB>> \o args) >>
    /\ notFoundHandler = "retErr"
    /\ pc = "loop"
    /\ idx = 0
    /\ log = <<>>
    /\ ret = Nil
    /\ conv = ConvIdle
    /\ Rest

NextExec == ProcessLine \/ ProcessInputDone

SpecExec == InitExec /\ [][NextExec]_vars

---------------------------------------------------------------------------
(* The printer: Print, Printf and Println under the one package lock       *)

PrintFns == {"Print", "Printf", "Println"}

InitPrint ==
    /\ commands = <<>>
    /\ notFoundHandler = "nil"
    /\ pc = "prompt"
    /\ userInput = <<>>
    /\ lines = <<>>
    /\ idx = 0
    /\ log = <<>>
    /\ ret = Nil
    /\ conv = ConvIdle
    /\ Rest

\* what the printer leaves alone
notPrintVars == <<dispatchVars, conv, comp, call, closeVars>>

\* goroutine c calls fn; its next step is lock.Lock()
Call(c, fn) ==
    /\ callers[c].at = "idle"
    /\ callers' = [callers EXCEPT ![c] = [at |-> "lock", fn |-> fn]]
    /\ UNCHANGED <<lock, notPrintVars>>

\* lock.Lock() that does not wait for the lock to be free
LockBarge(c) ==
    /\ callers[c].at = "lock"
    /\ lock' = c
    /\ callers' = [callers EXCEPT ![c].at = "write"]
    /\ UNCHANGED notPrintVars

\* lock.Lock() returns: the lock was free and c holds it now
Lock(c) ==
    /\ callers[c].at = "lock"
    /\ lock = 0
    /\ lock' = c
    /\ callers' = [callers EXCEPT ![c].at = "write"]
    /\ UNCHANGED notPrintVars

\* fmt.Print / fmt.Printf / fmt.Println returns
Write(c) ==
    /\ callers[c].at = "write"
    /\ callers' = [callers EXCEPT ![c].at = "unlock"]
    /\ UNCHANGED <<lock, notPrintVars>>

\* the deferred lock.Unlock(), then the function returns; sync.Mutex does
\* not know its holder, and unlocking a free mutex is a fatal error
Unlock(c) ==
    /\ callers[c].at = "unlock"
    /\ IF lock = 0
       THEN /\ callers' = [callers EXCEPT ![c].at = "fatal"]
            /\ UNCHANGED lock
       ELSE /\ lock' = 0
            /\ callers' = [callers EXCEPT ![c] = [at |-> "idle", fn |-> "none"]]
    /\ UNCHANGED notPrintVars

NextPrint ==
    \/ \E c \in Callers, fn \in PrintFns : Call(c, fn)
    \/ \E c \in Callers : Lock(c)
    \/ \E c \in Callers : Write(c)
    \/ \E c \in Callers : Unlock(c)

\* Every write is taken to finish and a deferred Unlock runs when its
\* function returns (weak fairness).  A goroutine blocked in Lock gets the
\* mutex after finitely many releases: a sync.Mutex whose waiter has waited
\* for more than 1ms hands the lock to the waiter at the front of its queue
\* (strong fairness of Lock).
SpecPrint ==
    /\ InitPrint
    /\ [][NextPrint]_vars
    /\ \A c \in Callers : WF_vars(Write(c)) /\ WF_vars(Unlock(c)) /\ SF_vars(Lock(c))

\* the goroutines inside the underlying write
Writing == {c \in Callers : callers[c].at = "write"}

\* C12. Output writes are mutually exclusive: at most one goroutine is inside
\* fmt.Print/Printf/Println at any time, whichever of the three functions the
\* callers use; a goroutine that is not between Lock and Unlock does not hold
\* the lock, and the lock is held only by a goroutine that is; and every
\* goroutine waiting in Lock eventually holds the lock.
C12_WritesExclusive ==
    /\ [](Cardinality(Writing) <= 1)
    /\ [](\A c \in Callers :
             /\ callers[c].at \in {"idle", "lock"} => lock # c
             /\ callers[c].at \in {"write", "unlock"} => lock = c)
    /\ \A c \in Callers : (callers[c].at = "lock") ~> (lock = c)

\* C12 witness: one goroutine is writing through Printf while two others
\* wait in Print and in Println
C12_Witness ==
    \E c, d, e \in Callers :
        /\ callers[c] = [at |-> "write", fn |-> "Printf"] /\ lock = c
        /\ callers[d] = [at |-> "lock", fn |-> "Print"]
        /\ callers[e] = [at |-> "lock", fn |-> "Println"]

---------------------------------------------------------------------------
(* Completion: GomCLI.complete, called by the line editor on Tab           *)

\* characters of a line being completed
MaxLineLen == 5

\* strings.HasPrefix(s, prefix)
HasPrefix(s, prefix) ==
    Len(prefix) <= Len(s) /\ SubSeq(s, 1, Len(prefix)) = prefix

\* the subcommands modeCompleter knows
Subcommands == { <<"b">>, <<"b", "a">> }

\* modeCompleter(text)
modeCompleter(text) == {sub \in Subcommands : HasPrefix(sub, text)}

\* Command.complete(line)
commandComplete(cmd, line) ==
    IF cmd.Completer # "nil" THEN modeCompleter(line) ELSE {}

\* rawCommandCompleter(line) over contextualComplete(): the candidates in no
\* particular order
rawCommandCompleter(cmds, line) == {name \in DOMAIN cmds : HasPrefix(name, line)}

\* complete after its loop found the prefix length i (0: none); the answer
\* also names the command delegated to and the search string it was given
completeResolved(cmds, line, tokens, i, tail) ==
    IF i = 0
    THEN [head |-> <<>>, comp |-> rawCommandCompleter(cmds, line), tail |-> tail,
          delegate |-> <<>>, search |-> <<>>]
    ELSE IF i = Len(tokens)
    THEN [head |-> line, comp |-> commandComplete(cmds[Join(Take(tokens, i))], <<>>),
          tail |-> tail, delegate |-> Join(Take(tokens, i)), search |-> <<>>]
    ELSE [head |-> Append(cmds[Join(Take(tokens, i))].Name, SP),
          comp |-> commandComplete(cmds[Join(Take(tokens, i))], tokens[i + 1]),
          tail |-> tail, delegate |-> Join(Take(tokens, i)), search |-> tokens[i + 1]]

\* complete after shlex.Split(line[:pos], false) returned tokens
completeTokens(cmds, line, pos, tokens) ==
    completeResolved(cmds, line, tokens, Resolve(cmds, tokens, Len(tokens)), Drop(line, pos))

\* GomCLI.complete(line, pos)
complete(cmds, line, pos) ==
    completeTokens(cmds, line, pos, ShlexSplit(Take(line, pos), FALSE).tokens)

\* the lines Tab is pressed on
RECURSIVE LinesOfLen(_)
LinesOfLen(n) ==
    IF n = 0 THEN { <<>> }
    ELSE { Append(l, ch) : l \in LinesOfLen(n - 1), ch \in {"a", "b", SP} }

CompLines == UNION { LinesOfLen(n) : n \in 0..MaxLineLen }

\* the answer r to Tab on line at pos
Completed(line, pos, r) ==
    comp' = [done |-> TRUE, line |-> line, pos |-> pos,
             head |-> r.head, comp |-> r.comp, tail |-> r.tail,
             delegate |-> r.delegate, search |-> r.search]

\* Tab at the prompt on one of typed: the line editor calls
\* complete(line, pos).  complete keeps no state, so one Tab per registry
\* and prompt shows all it can answer; comp holds that answer until the
\* registry changes or the line is read.
CompleteOn(typed) ==
    /\ pc = "prompt"
    /\ ~comp.done
    /\ \E line \in typed : \E pos \in 0..Len(line) :
          Completed(line, pos, complete(commands, line, pos))
    /\ call' = NoCall
    /\ UNCHANGED <<dispatchVars, conv, printVars, closeVars>>

Complete == CompleteOn(CompLines)

InitComplete ==
    /\ commands \in Registries
    /\ notFoundHandler = "nil"
    /\ pc = "prompt"
    /\ userInput = <<>>
    /\ lines = <<>>
    /\ idx = 0
    /\ log = <<>>
    /\ ret = Nil
    /\ conv = ConvIdle
    /\ Rest

NextComplete == Complete

SpecComplete == InitComplete /\ [][NextComplete]_vars

---------------------------------------------------------------------------
(* The registry under the calls of the application, between prompt cycles  *)

\* commands of one SetCommands slice
MaxSlice == 2

\* the loop of SetCommands over cmds[i:], filling the map m
RECURSIVE SetLoop(_, _, _)
SetLoop(m, cmds, i) ==
    IF i > Len(cmds) THEN m
    ELSE SetLoop(AddCommand(m, cmds[i]), cmds, i + 1)

\* SetCommands that fills the current map instead of a new one
SetCommandsKeep(old, cmds) == SetLoop(old, cmds, 1)

\* SetCommands: a new map, then one insert per element; old is the map it
\* replaces
SetCommands(old, cmds) == SetLoop(<<>>, cmds, 1)

\* the commands the application registers: each name with no ErrHandler or
\* with the README's errorHandler
RegCmds == { Command(n, FunctionOf(n), h) : n \in Names, h \in {"nil", "retNil"} }

RegSlices == UNION { [1..n -> RegCmds] : n \in 0..MaxSlice }

\* the application calls AddCommand(cmd)
DoAddCommand ==
    /\ pc = "prompt"
    /\ \E cmd \in RegCmds :
          /\ commands' = AddCommand(commands, cmd)
          /\ call' = [op |-> "AddCommand", cmd |-> cmd]
    /\ comp' = CompIdle
    /\ UNCHANGED <<notFoundHandler, pc, userInput, lines, idx, log, ret, conv, printVars, closeVars>>

\* the application calls RemoveCommand(name)
DoRemoveCommand ==
    /\ pc = "prompt"
    /\ \E name \in Names :
          /\ commands' = RemoveCommand(commands, name)
          /\ call' = [op |-> "RemoveCommand", name |-> name]
    /\ comp' = CompIdle
    /\ UNCHANGED <<notFoundHandler, pc, userInput, lines, idx, log, ret, conv, printVars, closeVars>>

\* the application calls SetCommands(cmds)
DoSetCommands ==
    /\ pc = "prompt"
    /\ \E cmds \in RegSlices :
          /\ commands' = SetCommands(commands, cmds)
          /\ call' = [op |-> "SetCommands", cmds |-> cmds]
    /\ comp' = CompIdle
    /\ UNCHANGED <<notFoundHandler, pc, userInput, lines, idx, log, ret, conv, printVars, closeVars>>

\* after New and SetNotFoundHandler
InitRegistry ==
    /\ commands = <<>>
    /\ notFoundHandler = "retNil"
    /\ pc = "prompt"
    /\ userInput = <<>>
    /\ lines = <<>>
    /\ idx = 0
    /\ log = <<>>
    /\ ret = Nil
    /\ conv = ConvIdle
    /\ Rest

\* the lines read and the lines completed between the registry calls
RegInputs ==
    { <<"a">>, <<"a", SP, "b">>, <<"b", SP, "1", SP, "a">>, <<"b", SP, "a", SP, "1">>,
      <<"a", SP, "b", SEMI, SP, "b", SP, "1", SP, "a">>, <<"1">> }

RegTyped == { <<"a">>, <<"a", SP>>, <<"a", SP, "b">>, <<"b">> }

NextRegistry ==
    \/ DoAddCommand
    \/ DoRemoveCommand
    \/ DoSetCommands
    \/ CompleteOn(RegTyped)
    \/ PromptFrom(RegInputs)
    \/ ProcessLine
    \/ ProcessInputDone

SpecRegistry == InitRegistry /\ [][NextRegistry]_vars

---------------------------------------------------------------------------
(* Lines whose invocations change the registry for the ones after them     *)

\* statements of one raw line
MaxStmts == 3

\* the statements: "a b" registers "b", "b 1 a" runs it, "d" removes it
DynStmts == { NameAB, <<"b", SP, "1", SP, "a">>, NameD }

\* statements joined by "; "
RECURSIVE JoinStmts(_)
JoinStmts(ss) ==
    IF Len(ss) = 1 THEN ss[1]
    ELSE ss[1] \o <<SEMI, SP>> \o JoinStmts(Tail(ss))

DynInputs == { JoinStmts(ss) : ss \in UNION { [1..n -> DynStmts] : n \in 1..MaxStmts } }

DynRegistries ==
    { [n \in S |-> Command(n, FunctionOf(n), "retNil")] : S \in SUBSET {NameAB, NameB, NameD} }

InitDynamic ==
    /\ commands \in DynRegistries
    /\ notFoundHandler \in {"nil", "retNil"}
    /\ pc = "prompt"
    /\ userInput = <<>>
    /\ lines = <<>>
    /\ idx = 0
    /\ log = <<>>
    /\ ret = Nil
    /\ conv = ConvIdle
    /\ Rest

NextDynamic == PromptFrom(DynInputs) \/ ProcessLine \/ ProcessInputDone

SpecDynamic == InitDynamic /\ [][NextDynamic]_vars

---------------------------------------------------------------------------
(* Start, StartWithInput and Close: how the CLI returns to its caller      *)

\* the errors of liner's Prompt: Ctrl-C with CtrlCAborts set, and Ctrl-D
LinerErrPromptAborted == "liner: prompt aborted"
EOF == "EOF"
PromptErrors == {LinerErrPromptAborted, EOF}

\* Start: the switch over the error of process
StartError(err) == IF err = LinerErrPromptAborted THEN ErrCliPromptAborted ELSE err

\* initial inputs and prompt lines: one that runs, one whose arguments do
\* not convert, one that is not found, one that does not split
StartInputs ==
    { <<"b", SP, "1", SP, "a">>, <<"b", SP, "a">>, <<"a">>,
      <<"b", SP, "1", SP, "a", SEMI, SP, "a">>, <<"a", SEMI, SEMI>> }

StartRegistries ==
    { [n \in S |-> Command(n, FunctionOf(n), h)] : S \in SUBSET {NameB}, h \in ErrHandlers }

\* the application has called StartWithInput(input), or Start
InitStart ==
    /\ commands \in StartRegistries
    /\ notFoundHandler \in NotFoundHandlers
    /\ \/ pc = "start" /\ userInput \in StartInputs
       \/ pc = "prompt" /\ userInput = <<>>
    /\ lines = <<>>
    /\ idx = 0
    /\ log = <<>>
    /\ ret = Nil
    /\ conv = ConvIdle
    /\ Rest

\* process: c.lr.Prompt returns an error instead of a line
PromptFails ==
    /\ pc = "prompt"
    /\ \E e \in PromptErrors : ret' = e
    /\ pc' = "returned"
    /\ UNCHANGED <<commands, notFoundHandler, userInput, lines, idx, log, conv,
                   comp, call, printVars, closeVars>>

\* the error reaches the caller: from Start through its switch and with the
\* deferred Close run, from StartWithInput's own return as it is
Return ==
    /\ pc = "returned"
    /\ pc' = "exited"
    /\ ret' = IF started THEN StartError(ret) ELSE ret
    /\ closed' = IF started THEN closed + 1 ELSE closed
    /\ UNCHANGED <<commands, notFoundHandler, userInput, lines, idx, log, conv,
                   comp, call, printVars, started>>

NextStart ==
    \/ StartWithInput
    \/ PromptFrom(StartInputs)
    \/ PromptFails
    \/ ProcessLine
    \/ ProcessInputDone
    \/ Return

SpecStart == InitStart /\ [][NextStart]_vars

---------------------------------------------------------------------------
(* Properties                                                              *)

\* a line has been read in this prompt cycle
Read == userInput # <<>>

\* the tokens of an invocation string, as processLine sees them
TokensOf(line) == ShlexSplit(line, TRUE).tokens

\* the events of invocation k
EventsOf(k) == SelectSeq(log, LAMBDA e : e.idx = k)

\* C1. Longest match wins: a turn of the dispatch loop on a non-empty token
\* sequence executes the command named by the longest registered prefix of
\* the tokens (joined by single spaces) and hands it exactly the tokens after
\* that prefix; with no registered prefix nothing is executed.
C1_LongestMatch ==
    [][ (pc = "loop" /\ idx < Len(lines) /\ idx' = idx + 1) =>
          LET t == ShlexSplit(lines[idx + 1], TRUE)
              M == {i \in 1..Len(t.tokens) : Join(Take(t.tokens, i)) \in DOMAIN commands}
              new == SubSeq(log', Len(log) + 1, Len(log'))
              execs == SelectSeq(new, LAMBDA e : e.ev = "execute")
          IN (t.err = Nil /\ Len(t.tokens) > 0) =>
               IF M = {} THEN Len(execs) = 0
               ELSE LET m == CHOOSE i \in M : \A k \in M : k <= i IN
                    /\ Len(execs) = 1
                    /\ new[1].ev = "execute"
                    /\ new[1].name = Join(Take(t.tokens, m))
                    /\ new[1].args = Drop(t.tokens, m)
      ]_vars

\* C1 witness: "a" and "a b" are both registered and the line "a b 1" ran
\* "a b" with the residual <<"1">>
C1_Witness ==
    /\ userInput = <<"a", SP, "b", SP, "1">>
    /\ {NameA, NameAB} \subseteq DOMAIN commands
    /\ Len(log) > 0
    /\ log[1].ev = "execute" /\ log[1].name = NameAB /\ log[1].args = << <<"1">> >>

ModeLine == <<"a", SP, "b", SP, "1", SEMI, "a">>
ModeLineSpaced == <<"a", SP, "b", SEMI, SP, "a">>

HasDoubledSeparator(s) ==
    \E i \in 1..(Len(s) - 1) :
        s[i] = SEMI /\ s[i + 1] = SEMI /\ (i = 1 \/ s[i - 1] # BSL)

\* a token of the raw line ends in two semicolons
TokenEndsDoubled(s) ==
    \E j \in 1..Len(ShlexSplit(s, FALSE).tokens) :
        LET e == ShlexSplit(s, FALSE).tokens[j] IN
        Len(e) > 1 /\ e[Len(e)] = SEMI /\ e[Len(e) - 1] = SEMI

\* the split of the line that was read failed
SplitFailed ==
    pc = "returned" /\ idx = 0 /\ lines = <<>> /\ log = <<>> /\ ret = ErrCliCannotParseLine

C4_SplitAllOrNothing ==
    [][ /\ pc # "returned"
        /\ (pc = "prompt" /\ TokenEndsDoubled(userInput')) =>
              (pc' = "returned" /\ ret' = ErrCliCannotParseLine /\ log' = <<>>
                  /\ idx' = 0 /\ commands' = commands)
      ]_vars

\* C4 witness: "a; b;;" was rejected although "a" is registered and its
\* statement is complete
C4_Witness ==
    /\ userInput = <<"a", SEMI, SP, "b", SEMI, SEMI>>
    /\ NameA \in DOMAIN commands
    /\ pc = "returned" /\ log = <<>>

\* C5. The invocations of a line run left to right, one after the other,
\* and the first error ends the line: processInput returns it and no later
\* invocation is started.
C5_InOrderUntilError ==
    /\ idx <= Len(lines)
    /\ \A j \in 1..Len(log) : log[j].idx \in 1..idx
    /\ \A j \in 1..(Len(log) - 1) : log[j].idx <= log[j + 1].idx
    /\ \A j \in 1..Len(log) :
          log[j].ev \in {"execute", "notFound"} =>
             LET t == TokensOf(lines[log[j].idx]) IN
             \/ (log[j].ev = "notFound" /\ log[j].args = <<t[1]>>)
             \/ (log[j].ev = "execute"
                   /\ ShlexSplit(log[j].name, FALSE).tokens \o log[j].args = t)
    /\ (ret # Nil) => pc = "returned"
    /\ (pc = "loop") => ret = Nil
    /\ (pc = "returned" /\ idx > 0) => ret # Nil
    /\ \A j \in 1..Len(log) :
          (log[j].res # Nil) => (j = Len(log) /\ pc = "returned" /\ ret = log[j].res)

\* C5 witness: of the three invocations "a", "b", "a" the first ran, the
\* second returned the error of its ErrHandler, the third was not started
C5_Witness ==
    /\ lines = << <<"a">>, <<"b">>, <<"a">> >>
    /\ pc = "returned" /\ idx = 2 /\ ret = ErrApp
    /\ \E j \in 1..Len(log) : log[j].ev = "call" /\ log[j].idx = 1

\* C6 as stated: the operation is invoked only with exactly N values, each
\* the successful conversion of the token at its index, and never in an
\* invocation in which a binder failure occurred
C6_NoPartialValues ==
    \A j \in 1..Len(log) :
        log[j].ev = "call" =>
            LET e == log[j]
                kinds == FunctionOf(e.name).in
            IN /\ Len(e.vals) = Len(kinds)
               /\ Len(e.args) >= Len(kinds)
               /\ \A p \in 1..Len(kinds) :
                     /\ convertStringToType(kinds[p], e.args[p]).err = Nil
                     /\ convertStringToType(kinds[p], e.args[p]).val = e.vals[p]
               /\ \A k \in 1..Len(log) :
                     log[k].idx = e.idx => log[k].ev # "handleErr"

\* C7. A binder failure that is not handled aborts the invocation: when
\* handleErr gives back an error (the classification itself when the command
\* has no ErrHandler, the handler's error otherwise), nothing follows it in
\* the invocation, the operation is not called, and processInput returns
\* that error.
C7_UnhandledAborts ==
    \A j \in 1..Len(log) :
        log[j].ev = "handleErr" =>
            /\ (log[j].handler = "nil") => (log[j].res = log[j].err /\ log[j].res # Nil)
            /\ (log[j].handler = "retErr") => log[j].res = ErrApp
            /\ (log[j].res # Nil) =>
                  /\ j = Len(log)
                  /\ pc = "returned"
                  /\ ret = log[j].res
                  /\ \A k \in 1..Len(log) : log[k].idx = log[j].idx => log[k].ev # "call"

\* C7 witness: "b" without its argument and without an ErrHandler returned
\* ErrCmdMissingArgs
C7_Witness ==
    /\ Len(log) = 2
    /\ log[2].ev = "handleErr" /\ log[2].handler = "nil" /\ log[2].name = NameB
    /\ ret = ErrCmdMissingArgs /\ pc = "returned"

\* C8 as stated: missing arguments handled by the ErrHandler (it returns nil)
\* let execute end normally, without a crash
C8_MissingArgsRecoverable ==
    \A j \in 1..Len(log) :
        (log[j].ev = "handleErr" /\ log[j].err = ErrCmdMissingArgs /\ log[j].res = Nil)
            => ~(pc = "panic" /\ log[j].idx = idx)

\* C10 as stated: the ErrHandler gets ErrCmdMissingArgs for too few tokens,
\* ErrCmdInvalidArgs for a token that cannot be converted, ErrCmdArgOverflow
\* for an overflow and ErrCmdArgUnsupportedKind for an unsupported kind
C10_DistinctErrorValues ==
    \A j \in 1..Len(log) :
        log[j].ev = "handleErr" =>
            /\ log[j].err \in {ErrCmdMissingArgs, ErrCmdInvalidArgs,
                               ErrCmdArgOverflow, ErrCmdArgUnsupportedKind}
            /\ (Len(log[j].args) < Len(FunctionOf(log[j].name).in)
                   /\ log[j - 1].ev = "execute") => log[j].err = ErrCmdMissingArgs


BeforeCursor == ShlexSplit(Take(comp.line, comp.pos), FALSE).tokens

\* some non-empty prefix of the tokens is a registered name
SomePrefixRegistered(tokens) ==
    \E i \in 1..Len(tokens) : Join(Take(tokens, i)) \in DOMAIN commands

\* C13 as stated: when no prefix of the tokens before the cursor is a
\* registered name, the candidates are the registered names that start with
\* the first token of the line, and the head is empty
C13_FallbackFirstToken ==
    (comp.done /\ Len(BeforeCursor) > 0 /\ ~SomePrefixRegistered(BeforeCursor)) =>
        /\ comp.comp = {name \in DOMAIN commands : HasPrefix(name, BeforeCursor[1])}
        /\ comp.head = <<>>

\* C14 as stated: the tail is the text after the cursor, and the head and
\* the candidates are those of the text before the cursor alone
C14_OnlyBeforeCursor ==
    comp.done =>
        /\ comp.tail = Drop(comp.line, comp.pos)
        /\ comp.head = complete(commands, Take(comp.line, comp.pos), comp.pos).head
        /\ comp.comp = complete(commands, Take(comp.line, comp.pos), comp.pos).comp

\* C15 as stated: delegation to the command named by all tokens with the
\* empty search string; otherwise to the command named by all tokens but the
\* last, with the last token as search string and the name plus a space as
\* head; otherwise no delegation
C15_ThreeCases ==
    comp.done =>
        IF Len(BeforeCursor) > 0 /\ Join(BeforeCursor) \in DOMAIN commands
        THEN comp.delegate = Join(BeforeCursor) /\ comp.search = <<>>
        ELSE IF Len(BeforeCursor) > 1
                /\ Join(Take(BeforeCursor, Len(BeforeCursor) - 1)) \in DOMAIN commands
        THEN /\ comp.delegate = Join(Take(BeforeCursor, Len(BeforeCursor) - 1))
             /\ comp.search = BeforeCursor[Len(BeforeCursor)]
             /\ comp.head = Append(comp.delegate, SP)
        ELSE comp.delegate = <<>>



\* the whitespace-delimited tokens of the input
InputTokens == ShlexSplit(userInput, FALSE).tokens

\* splitInlineCommands has returned its invocations and they are still there
SplitReturned == pc \in {"loop", "panic"} \/ (pc = "returned" /\ idx > 0)

\* a token ending in backslash + semicolon
Escaped(e) == Len(e) > 1 /\ Last2(e) = <<BSL, SEMI>>

\* a token that closes a statement
Closer(e) == Len(e) > 0 /\ e[Len(e)] = SEMI /\ ~Escaped(e)

\* the statements closed before token j
ClosersBefore(tokens, j) == Cardinality({i \in 1..(j - 1) : Closer(tokens[i])})

\* the words of invocation k
WordsOf(k) == ShlexSplit(lines[k], FALSE).tokens

\* C16. Escaped separator: a token ending in backslash + semicolon never
\* closes a statement: the number of invocations is the number of tokens
\* ending in an unescaped semicolon, plus one when tokens follow the last of
\* them; the escaped token is a word of the statement being accumulated,
\* backslash included; and "a\; a" is the single invocation "a\; a".
C16_EscapedSeparatorKept ==
    SplitReturned =>
        /\ Len(lines) = ClosersBefore(InputTokens, Len(InputTokens) + 1)
                        + (IF Len(InputTokens) > 0
                              /\ ~Closer(InputTokens[Len(InputTokens)])
                           THEN 1 ELSE 0)
        /\ \A j \in 1..Len(InputTokens) :
              Escaped(InputTokens[j]) =>
                 \E w \in 1..Len(WordsOf(ClosersBefore(InputTokens, j) + 1)) :
                    WordsOf(ClosersBefore(InputTokens, j) + 1)[w] = InputTokens[j]
        /\ (userInput = <<"a", BSL, SEMI, SP, "a">>) =>
              lines = << <<"a", BSL, SEMI, SP, "a">> >>

\* C16 witness: "a\; a" has been split
C16_Witness ==
    /\ userInput = <<"a", BSL, SEMI, SP, "a">>
    /\ pc = "loop"
    /\ Len(lines) = 1

\* C17 as stated: no emitted invocation is empty; "a;" gives "a", ";a" and
\* "; a" give "a", "a; ;" gives "a", and blank input gives no invocation
C17_NoEmptyInvocation ==
    SplitReturned =>
        /\ \A k \in 1..Len(lines) : lines[k] # <<>>
        /\ (userInput = <<"a", SEMI>>) => lines = << <<"a">> >>
        /\ (userInput \in { <<SEMI, "a">>, <<SEMI, SP, "a">> }) => lines = << <<"a">> >>
        /\ (userInput = <<"a", SEMI, SP, SEMI>>) => lines = << <<"a">> >>
        /\ (userInput \in { <<>>, <<SP>>, <<SP, SP>> }) => lines = <<>>



\* the one command and the argument tokens of the invocation "b <args>"
TheCmd == commands[NameB]
TheArgs == Drop(TokensOf(lines[1]), 1)
NumIn == Len(TheCmd.Function.in)

\* the invocation has been dispatched and its line is still there
Dispatched == idx = 1 /\ Len(lines) = 1

\* events without the argument list they carry
Masked(events) == [j \in 1..Len(events) |-> [events[j] EXCEPT !.args = <<>>]]

\* C18. Surplus tokens are ignored: when the Function has N parameters and
\* the invocation has more than N argument tokens, no missing-arguments error
\* is raised and nothing panics; a call gets exactly N values, the j-th one
\* converted from the j-th token; and the events and the returned error are
\* those of the same command executed with the first N tokens only.
C18_SurplusIgnored ==
    (Dispatched /\ TheCmd.Function.is = "func" /\ Len(TheArgs) > NumIn) =>
        /\ pc # "panic"
        /\ \A j \in 1..Len(log) :
              /\ log[j].err # ErrCmdMissingArgs
              /\ log[j].ev = "call" =>
                    log[j].vals = [k \in 1..NumIn |->
                        convertStringToType(TheCmd.Function.in[k], TheArgs[k]).val]
        /\ Masked(log) =
              Masked(Numbered(execute(TheCmd, Take(TheArgs, NumIn), NumIn).events, 1))
        /\ ret = execute(TheCmd, Take(TheArgs, NumIn), NumIn).err

\* C18 witness: "b 1 x 300" called func(int8, string) with (1, "x")
C18_Witness ==
    /\ Dispatched
    /\ TheCmd.Function.in = <<"Int8", "String">>
    /\ TheArgs = << <<"1">>, <<"x">>, <<"3", "0", "0">> >>
    /\ log[Len(log)].ev = "call"
    /\ log[Len(log)].vals = << Val("Int8", 1), Val("String", <<"x">>) >>

IsWith(m2, m, cmd) ==
    /\ DOMAIN m2 = DOMAIN m \cup {cmd.Name}
    /\ m2[cmd.Name] = cmd
    /\ \A n \in DOMAIN m \ {cmd.Name} : m2[n] = m[n]

\* the map m with no entry for name and nothing else changed
IsWithout(m2, m, name) ==
    /\ DOMAIN m2 = DOMAIN m \ {name}
    /\ \A n \in DOMAIN m2 : m2[n] = m[n]

\* the map of exactly the commands of the slice, the last one of a name wins
IsExactly(m2, cmds) ==
    /\ DOMAIN m2 = {cmds[i].Name : i \in 1..Len(cmds)}
    /\ \A i \in 1..Len(cmds) :
          (\A j \in (i + 1)..Len(cmds) : cmds[j].Name # cmds[i].Name)
             => m2[cmds[i].Name] = cmds[i]

NoSeparator(s) == \A i \in 1..Len(s) : s[i] # SEMI

\* the input is empty or all spaces
Blank(s) == \A i \in 1..Len(s) : s[i] = SP

\* s with leading and trailing spaces dropped and every run of spaces made
\* one space
RECURSIVE Normalize(_)
Normalize(s) ==
    IF s = <<>> THEN <<>>
    ELSE IF s[1] = SP THEN Normalize(Tail(s))
    ELSE IF Len(s) > 1 /\ s[2] = SP
    THEN IF Blank(Tail(s)) THEN <<s[1]>>
         ELSE <<s[1], SP>> \o Normalize(Tail(s))
    ELSE <<s[1]>> \o Normalize(Tail(s))

\* C21 as stated: every input without a separator splits into exactly one
\* invocation, the input with its whitespace normalized, and splitting that
\* invocation again gives the same single invocation
C21_SingleStatementIdempotent ==
    (SplitReturned /\ NoSeparator(userInput)) =>
        /\ lines = << Normalize(userInput) >>
        /\ \A k \in 1..Len(lines) :
              splitInlineCommands(lines[k]) = [err |-> Nil, lines |-> << lines[k] >>]

\* C21. Splitting is idempotent on single statements: every input without a
\* separator that has at least one token splits into exactly one invocation,
\* the input with its whitespace normalized, and splitting that invocation
\* again gives the same single invocation; an empty or all-space input gives
\* no invocation.
C21_NonBlankStatementIdempotent ==
    (SplitReturned /\ NoSeparator(userInput)) =>
        IF Blank(userInput)
        THEN lines = <<>>
        ELSE /\ lines = << Normalize(userInput) >>
             /\ splitInlineCommands(lines[1]) = [err |-> Nil, lines |-> lines]

\* C21 witness: " a  a" has been split into "a a"
C21_Witness ==
    /\ userInput = <<SP, "a", SP, SP, "a">>
    /\ pc = "loop"
    /\ lines = << <<"a", SP, "a">> >>



\* the events before invocation k of this line in which a Function that
\* registers or removes "b" was called
ChangesBefore(k) ==
    { j \in 1..Len(log) : /\ log[j].idx < k
                          /\ log[j].ev = "call"
                          /\ FunctionOf(log[j].name).effect \in {"addB", "delB"} }

\* the last of them
LastChangeBefore(k) == CHOOSE j \in ChangesBefore(k) : \A i \in ChangesBefore(k) : i <= j

\* invocation k executed the command "b"
RanB(k) == \E j \in 1..Len(log) : log[j].idx = k /\ log[j].ev = "execute" /\ log[j].name = NameB

\* C22. Each invocation is resolved against the registry as it is when the
\* invocation is reached: an invocation "b ..." that comes after an
\* invocation of the same line whose Function registered "b" executes "b",
\* and one that comes after an invocation whose Function removed "b" executes
\* nothing (the NotFoundHandler, when set, gets "b"), whichever of the two
\* happened last and whatever the registry was when the line was split.
\* "a b; b 1 a" executes "b" although only "a b" registers it.
C22_ResolvedWhenReached ==
    (Read /\ pc # "prompt") =>
        /\ \A k \in 1..idx :
              (TokensOf(lines[k])[1] = NameB /\ ChangesBefore(k) # {}) =>
                 IF FunctionOf(log[LastChangeBefore(k)].name).effect = "addB"
                 THEN RanB(k)
                 ELSE /\ \A j \in 1..Len(log) : log[j].idx = k => log[j].ev = "notFound"
                      /\ notFoundHandler # "nil" =>
                            \E j \in 1..Len(log) :
                               log[j].idx = k /\ log[j].args = << NameB >>
        /\ (userInput = <<"a", SP, "b", SEMI, SP, "b", SP, "1", SP, "a">>
              /\ NameAB \in DOMAIN commands /\ idx = 2) => RanB(2)

\* C22 witness: "b 1 a; a b; b 1 a" found no "b" first, then "a b"
\* registered it, then "b" ran
C22_Witness ==
    /\ userInput = JoinStmts(<< <<"b", SP, "1", SP, "a">>, NameAB, <<"b", SP, "1", SP, "a">> >>)
    /\ idx = 3
    /\ \E j \in 1..Len(log) : log[j].idx = 1 /\ log[j].ev = "notFound"
    /\ \E j \in 1..Len(log) : log[j].idx = 2 /\ log[j].ev = "call" /\ log[j].name = NameAB
    /\ \E j \in 1..Len(log) : log[j].idx = 3 /\ log[j].ev = "call" /\ log[j].name = NameB



\* C23. Whenever Start or StartWithInput has returned to its caller, Close
\* has run exactly once, and the result is ErrCliPromptAborted only when
\* the prompt read failed: no line was being processed.
C23_ClosedExactlyOnce ==
    pc = "exited" =>
        /\ closed = 1
        /\ ret = ErrCliPromptAborted => (lines = <<>> /\ log = <<>>)

\* a return out of Start has run Close once; a return of StartWithInput on
\* the error of its own input has not run it
ClosedIffStarted ==
    /\ closed <= 1
    /\ pc = "exited" => (closed = 1 <=> started)
    /\ (pc = "exited" /\ ret = ErrCliPromptAborted) => (lines = <<>> /\ log = <<>>)

\* StartWithInput has returned the error of its initial input
ReturnedFromInitialInput == pc = "exited" /\ ~started /\ ret # Nil

====
